---- MODULE Spec2Model ----
(***************************************************************************)
(* Model of the EEG signal pipeline of Databeats-Coderush:                 *)
(*   EEGPreprocessor        (lib/preprocessing.ts)                         *)
(*   SpectrogramGenerator   (lib/onnx-inference.ts, spectrogram section)   *)
(*   ONNXModelInference     (lib/onnx-inference.ts)                        *)
(*   useSpectrogram, useEEGData, useModelInference (hooks)                 *)
(*   the dashboard page and the ModelInference component                   *)
(* JavaScript numbers are modelled as exact rationals extended with NaN    *)
(* and the two infinities, so that 0/0, x/0, Math.max() of nothing and     *)
(* array lengths that are not valid behave as they do in the engine.       *)
(* Transcendental values (sqrt, cos sums, log10 of a DFT power) are kept   *)
(* as symbolic terms that record what they were computed from.             *)
(***************************************************************************)
EXTENDS Integers, Sequences, FiniteSets, TLC

VARIABLES
  data,       \* EEGData.data   : the sample buffer handed to the operation
  sfreq,      \* EEGData.sfreq  : its sampling rate
  op,         \* the operation whose outcome is held ("none": no call made yet)
  args,       \* the extra arguments of that call (windowSize, overlap)
  result,     \* what the call produced: a returned value or a thrown error
  \* useSpectrogram(data, windowSize, overlap)
  hookData,         \* its data argument: null or an EEGData
  hookParams,       \* its windowSize and overlap
  powerSeed,        \* the environment's choice of the log-power values
  spectrogramData,  \* the first memo: null or a spectrogram
  frequencyBands,   \* the second memo: null or the five band powers
  hookOutcome,      \* how the last render of the hook ended for its caller
  \* NeuroInsightDashboard: the state of useEEGData and what the page hands on
  rawData,          \* null or the EEGData as loaded
  processedData,    \* null or the EEGData after EEGPreprocessor.preprocess
  isLoading,
  loadError,        \* useEEGData's error: null or a message
  pendingLoads,     \* calls of loadSampleData waiting for their data
  handed,           \* per consumer: null, or the buffer it was given since
                    \* the last render, with rawData and processedData
  \* the ONNXModelInference instance and the calls made on it
  session,          \* null or the InferenceSession
  isLoaded,
  calls,            \* per call slot: the call, where it stands, what it holds
  remembered,       \* history: null, or one extraction made earlier on
  live,             \* history: sessions created and not released so far
  versions,         \* history: the modelVersion values predict has returned
  \* the arrays and objects the three steps read and create
  heap,             \* per reference: null (nothing there) or the object
  subject,          \* the reference of the buffer that was loaded
  original,         \* history: the samples of that buffer when it was loaded
  lastCall,         \* the last call: its step, argument, the argument's
                    \* content before the call, and what it returned
  \* the ModelInference component
  eegProp,          \* its eegData prop: null or an EEGData
  isRunning,
  progress,
  analysisPrediction,  \* its prediction state
  analysisError,       \* its error state
  runPc,            \* where the runAnalysis in progress stands
  runData,          \* the eegData that runAnalysis closed over
  resetTimers,      \* pending setTimeout(() => setProgress(0), 1000)
  \* useModelInference
  inferenceLoading,     \* its isLoading state
  inferencePrediction,  \* its prediction state
  inferenceError,       \* its error state
  inflight          \* per slot: null, or the eegData of a runInference that
                    \* is waiting for predict

coreVars == <<data, sfreq, op, args, result>>
hookVars ==
  <<hookData, hookParams, powerSeed, spectrogramData, frequencyBands, hookOutcome>>

pageVars == <<rawData, processedData, isLoading, loadError, pendingLoads, handed>>

modelVars == <<session, isLoaded, calls, remembered, live, versions>>

frameVars == <<heap, subject, original, lastCall>>

compVars ==
  <<eegProp, isRunning, progress, analysisPrediction, analysisError, runPc, runData,
    resetTimers>>

inferVars == <<inferenceLoading, inferencePrediction, inferenceError, inflight>>

uiVars == <<compVars, inferVars>>

vars == <<coreVars, hookVars, pageVars, modelVars, frameVars, uiVars>>

\* what the operations on a bare buffer leave alone
outsideCore == <<hookVars, pageVars, modelVars, frameVars, uiVars>>
\* what a render of useSpectrogram leaves alone
outsideHook == <<coreVars, pageVars, modelVars, frameVars, uiVars>>
\* what the dashboard page leaves alone
outsidePage == <<coreVars, hookVars, modelVars, frameVars, uiVars>>
\* what the model instance leaves alone
outsideModel == <<coreVars, hookVars, pageVars, frameVars, uiVars>>
\* what the calls on the heap leave alone
outsideFrame == <<coreVars, hookVars, pageVars, modelVars, uiVars>>
\* what the ModelInference component and useModelInference leave alone
outsideUi == <<coreVars, hookVars, pageVars, modelVars, frameVars>>

----------------------------------------------------------------------------
(* Bounds of the model *)

MaxLen == 3
MaxAmp == 1
MaxWin == 4
MaxExtra == 3
MaxSeed == 1
MaxFileLen == 3
MaxPending == 2
MaxCalls == 2
MaxModelLen == 3
MaxLive == 2
MaxInflight == 2
MaxRefs == 3

(* Program constants *)

FilterDivisor == 10
FeatureLen == 128
StatEnd == 6
FreqEnd == 64
NumFreq == 58
NumTimeWindows == 64
TopFreq == 50
RefRate == 250
DefaultWindow == 256
DefaultDuration == 10
DefaultRate == 250

----------------------------------------------------------------------------
\* SampleDataGenerator.generateSampleEEG(): numSamples = duration * sfreq
ScenarioLen == DefaultDuration * DefaultRate

----------------------------------------------------------------------------
(* JavaScript numbers *)

AbsI(i) == IF i < 0 THEN -i ELSE i
SgnI(i) == IF i < 0 THEN -1 ELSE IF i = 0 THEN 0 ELSE 1

RECURSIVE GCD(_, _)
GCD(a, b) == IF b = 0 THEN a ELSE GCD(b, a % b)

NaN == [t |-> "nan", n |-> 0, d |-> 1]
Inf(s) == [t |-> "inf", n |-> s, d |-> 1]
PosInf == Inf(1)
NegInf == Inf(-1)

\* the rational n/d in lowest terms with a positive denominator (d # 0)
Q(n, d) ==
  LET g == GCD(AbsI(n), AbsI(d))
  IN  [t |-> "rat", n |-> SgnI(d) * (n \div g), d |-> AbsI(d) \div g]

Int2Num(i) == [t |-> "rat", n |-> i, d |-> 1]
Zero == Int2Num(0)

IsNaN(x) == x.t = "nan"
IsRat(x) == x.t = "rat"
IsInf(x) == x.t = "inf"
SgnN(x) == SgnI(x.n)

Neg(x) == IF IsNaN(x) THEN NaN ELSE [x EXCEPT !.n = -x.n]

Add(x, y) ==
  IF IsNaN(x) \/ IsNaN(y) THEN NaN
  ELSE IF IsInf(x) /\ IsInf(y) THEN (IF x.n = y.n THEN x ELSE NaN)
  ELSE IF IsInf(x) THEN x
  ELSE IF IsInf(y) THEN y
  ELSE Q(x.n * y.d + y.n * x.d, x.d * y.d)

Sub(x, y) == Add(x, Neg(y))

Mul(x, y) ==
  IF IsNaN(x) \/ IsNaN(y) THEN NaN
  ELSE IF IsInf(x) \/ IsInf(y)
       THEN (IF SgnN(x) * SgnN(y) = 0 THEN NaN ELSE Inf(SgnN(x) * SgnN(y)))
  ELSE Q(x.n * y.n, x.d * y.d)

\* x / y as the engine divides: 0/0 is NaN, x/0 is an infinity, nothing throws
Div(x, y) ==
  IF IsNaN(x) \/ IsNaN(y) THEN NaN
  ELSE IF IsInf(x) /\ IsInf(y) THEN NaN
  ELSE IF IsInf(x) THEN Inf(IF SgnN(y) < 0 THEN -x.n ELSE x.n)
  ELSE IF IsInf(y) THEN Zero
  ELSE IF y.n = 0 THEN (IF x.n = 0 THEN NaN ELSE Inf(SgnN(x)))
  ELSE Q(x.n * y.d, x.d * y.n)

MathAbs(x) == IF IsNaN(x) THEN NaN ELSE [x EXCEPT !.n = AbsI(x.n)]

\* x <= y ; false whenever a NaN is involved, as every comparison is
Leq(x, y) ==
  IF IsNaN(x) \/ IsNaN(y) THEN FALSE
  ELSE IF IsInf(x) THEN (x.n = -1 \/ (IsInf(y) /\ y.n = 1))
  ELSE IF IsInf(y) THEN y.n = 1
  ELSE x.n * y.d <= y.n * x.d

Lt(x, y) == Leq(x, y) /\ x # y

MathFloor(x) == IF IsRat(x) THEN Int2Num(x.n \div x.d) ELSE x

\* sum of f[lo..hi] (a sequence of numbers), split in halves to stay shallow
RECURSIVE SumRange(_, _, _)
SumRange(f, lo, hi) ==
  IF lo > hi THEN Zero
  ELSE IF lo = hi THEN f[lo]
  ELSE LET mid == (lo + hi) \div 2
       IN  Add(SumRange(f, lo, mid), SumRange(f, mid + 1, hi))

\* Math.max(...xs): -Infinity for no arguments, NaN if any argument is NaN
MathMax(xs) ==
  IF Len(xs) = 0 THEN NegInf
  ELSE IF \E i \in 1..Len(xs) : IsNaN(xs[i]) THEN NaN
  ELSE xs[CHOOSE i \in 1..Len(xs) : \A j \in 1..Len(xs) : Leq(xs[j], xs[i])]

\* Math.min(...xs): +Infinity for no arguments, NaN if any argument is NaN
MathMin(xs) ==
  IF Len(xs) = 0 THEN PosInf
  ELSE IF \E i \in 1..Len(xs) : IsNaN(xs[i]) THEN NaN
  ELSE xs[CHOOSE i \in 1..Len(xs) : \A j \in 1..Len(xs) : Leq(xs[i], xs[j])]

MapSeq(F(_), xs) == [i \in 1..Len(xs) |-> F(xs[i])]

----------------------------------------------------------------------------
(* Outcomes of a call *)

Returned(v) == [kind |-> "return", value |-> v, err |-> "none"]
Thrown(e) == [kind |-> "throw", value |-> <<>>, err |-> e]
NoResult == [kind |-> "none", value |-> <<>>, err |-> "none"]

\* a value that may be null: <<>> is null, <<v>> holds v
Null == <<>>
Some(v) == <<v>>
IsNull(o) == Len(o) = 0

----------------------------------------------------------------------------
(* EEGPreprocessor *)

\* half width of the moving-average window
HalfWindow(rate) == (rate \div FilterDivisor) \div 2

\* the index range [start, end) averaged for output index i (0-based)
FilterStart(i, rate) ==
  LET s == i - HalfWindow(rate) IN IF s < 0 THEN 0 ELSE s

\* a window closed at its upper end: [i - h, i + h]
FilterEndClosed(i, n, rate) ==
  LET e == i + HalfWindow(rate) + 1 IN IF e > n THEN n ELSE e

FilterEnd(i, n, rate) ==
  LET e == i + HalfWindow(rate) IN IF e > n THEN n ELSE e

bandpassFilter(xs, rate) ==
  [k \in 1..Len(xs) |->
     LET i == k - 1
         start == FilterStart(i, rate)
         end == FilterEnd(i, Len(xs), rate)
     IN  Div(SumRange(xs, start + 1, end), Int2Num(end - start))]

\* the mean taken with an integer division
removeDCOffsetFloorMean(xs) ==
  LET mean == MathFloor(Div(SumRange(xs, 1, Len(xs)), Int2Num(Len(xs))))
  IN  [i \in 1..Len(xs) |-> Sub(xs[i], mean)]

removeDCOffset(xs) ==
  LET mean == Div(SumRange(xs, 1, Len(xs)), Int2Num(Len(xs)))
  IN  [i \in 1..Len(xs) |-> Sub(xs[i], mean)]

normalize(xs) ==
  LET max == MathMax(MapSeq(MathAbs, xs))
  IN  [i \in 1..Len(xs) |-> Div(xs[i], max)]

\* the buffer as it stands right before the normalization step
Smoothed(xs, rate) == bandpassFilter(removeDCOffset(xs), rate)

\* preprocess has no throw statement and calls nothing that throws on numbers
preprocess(xs, rate) == Returned(normalize(Smoothed(xs, rate)))

----------------------------------------------------------------------------
(* SpectrogramGenerator *)

\* an overlap fraction is a pair <<num, den>>; all of them are dyadic, so
\* windowSize * (1 - overlap) is exact in binary floating point as well
hopSize(windowSize, overlap) ==
  (windowSize * (overlap[2] - overlap[1])) \div overlap[2]

\* the window count with the "+ 1" of the last, fitting window forgotten
numWindowsNoLast(len, windowSize, hop) ==
  MathFloor(Div(Int2Num(len - windowSize), Int2Num(hop)))

\* a JavaScript number: an integer, NaN (0/0) or an infinity (x/0)
numWindows(len, windowSize, hop) ==
  Add(MathFloor(Div(Int2Num(len - windowSize), Int2Num(hop))), Int2Num(1))

\* one bin too many: the axis then runs past the Nyquist frequency
freqBinsPastNyquist(windowSize) == (windowSize \div 2) + 2

freqBins(windowSize) == (windowSize \div 2) + 1

\* Array.from({ length }): ToLength maps NaN and negatives to 0; a length above
\* 2^32 - 1 (here: +Infinity, clamped to 2^53 - 1) makes the constructor throw
ArrayFromThrows(length) == IsInf(length) /\ length.n = 1
ArrayFromLength(length) ==
  IF IsRat(length) /\ length.n > 0 THEN length.n ELSE 0

\* Array(n) with a number n: throws unless n is an integer in 0..2^32-1
ArrayCtorThrows(length) == ~(IsRat(length) /\ length.d = 1 /\ length.n >= 0)

\* data.slice(from, to): negative arguments count from the end, both clamped
SliceIndex(len, i) ==
  IF i < 0 THEN (IF len + i < 0 THEN 0 ELSE len + i)
  ELSE (IF i > len THEN len ELSE i)

SliceLo(len, from) == SliceIndex(len, from)
SliceLen(len, from, to) ==
  LET k == SliceIndex(len, from)
      final == SliceIndex(len, to)
  IN  IF final - k < 0 THEN 0 ELSE final - k

\* the slices starting one sample apart, whatever the hop
PowerCellDenseStart(len, freqIdx, windowIdx, windowSize, hop) ==
  [bin |-> freqIdx,
   lo |-> SliceLo(len, windowIdx),
   n |-> SliceLen(len, windowIdx, windowIdx + windowSize)]

\* log10(real^2 + imag^2 + 1e-10) of bin freqIdx over the Hann-windowed slice:
\* a symbolic term naming the bin and the samples that entered the sum
PowerCell(len, freqIdx, windowIdx, windowSize, hop) ==
  LET start == windowIdx * hop
  IN  [bin |-> freqIdx,
       lo |-> SliceLo(len, start),
       n |-> SliceLen(len, start, start + windowSize)]

FrequencyAxis(rate, windowSize) ==
  [k \in 1..freqBins(windowSize) |-> Q((k - 1) * rate, windowSize)]

\* a time axis with one entry more than there are windows
TimeAxisOneMore(length, rate, hop) ==
  [w \in 1..(ArrayFromLength(length) + 1) |-> Q((w - 1) * hop, rate)]

TimeAxis(length, rate, hop) ==
  [w \in 1..ArrayFromLength(length) |-> Q((w - 1) * hop, rate)]

generateSpectrogram(xs, rate, windowSize, overlap) ==
  LET hop == hopSize(windowSize, overlap)
      nw == numWindows(Len(xs), windowSize, hop)
      bins == freqBins(windowSize)
  IN  IF ArrayFromThrows(nw) THEN Thrown("RangeError")
      ELSE IF bins > 0 /\ ArrayCtorThrows(nw) THEN Thrown("RangeError")
      ELSE Returned(
             [frequencies |-> FrequencyAxis(rate, windowSize),
              times |-> TimeAxis(nw, rate, hop),
              power |-> [k \in 1..bins |->
                           [w \in 1..nw.n |->
                              PowerCell(Len(xs), k - 1, w - 1, windowSize, hop)]]])

----------------------------------------------------------------------------
(* ONNXModelInference.prepareInput *)

\* Math.sqrt of a variance: kept as the term sqrt(n/d)
MathSqrt(x) == IF IsRat(x) THEN [x EXCEPT !.t = "sqrt"] ELSE x

\* sum over j of cos(2 pi freq j / 250) * data[j], divided by data.length, for
\* freq = (k / 58) * 50: the mean itself for k = 0, 0/0 for an empty buffer, and
\* otherwise a term naming the ratio freq / 250 = n / d that the sum used
CosProjection(xs, k) ==
  IF Len(xs) = 0 THEN NaN
  ELSE IF k = 0 THEN Div(SumRange(xs, 1, Len(xs)), Int2Num(Len(xs)))
  ELSE [t |-> "cosproj", n |-> k * TopFreq, d |-> NumFreq * RefRate]

\* the sample range [windowStart, windowEnd) of time window k of a buffer of len
windowStart(k, len) == (k * len) \div NumTimeWindows
\* windows of width ceil(len / 64) instead of floor(len / 64)
windowEndWide(k, len) ==
  LET e == windowStart(k, len) + ((len + NumTimeWindows - 1) \div NumTimeWindows)
  IN  IF e < len THEN e ELSE len

windowEnd(k, len) ==
  LET e == windowStart(k, len) + (len \div NumTimeWindows)
  IN  IF e < len THEN e ELSE len

Squares(xs, mean) ==
  [i \in 1..Len(xs) |-> Mul(Sub(xs[i], mean), Sub(xs[i], mean))]

\* one entry of the vector: its zone, the value stored (before the rounding to
\* float32 of the typed array) and the sample range [lo, hi) it was computed from
Entry(zone, v, lo, hi) == [zone |-> zone, v |-> v, lo |-> lo, hi |-> hi]

StatFeature(xs, i) ==
  LET len == Len(xs)
      mean == Div(SumRange(xs, 1, len), Int2Num(len))
      variance == Div(SumRange(Squares(xs, mean), 1, len), Int2Num(len))
      v == CASE i = 0 -> mean
             [] i = 1 -> MathSqrt(variance)
             [] i = 2 -> variance
             [] i = 3 -> MathMin(xs)
             [] i = 4 -> MathMax(xs)
             [] OTHER -> Sub(MathMax(xs), MathMin(xs))
  IN  Entry("stat", v, 0, len)

FreqFeature(xs, i) == Entry("freq", CosProjection(xs, i - StatEnd), 0, Len(xs))

TimeFeature(xs, i) ==
  LET ws == windowStart(i - FreqEnd, Len(xs))
      we == windowEnd(i - FreqEnd, Len(xs))
  IN  Entry("time", Div(SumRange(xs, ws + 1, we), Int2Num(we - ws)), ws, we)

\* the last loop stopping one entry early
TimeLoopEndEarly == FeatureLen - 1

\* the bound of the last loop: for (let i = 64; i < 128; i++)
TimeLoopEnd == FeatureLen

\* new Float32Array(128) is all zeros; the three loops then store into it
prepareInput(xs) ==
  [k \in 1..FeatureLen |->
     LET i == k - 1
     IN  IF i < StatEnd THEN StatFeature(xs, i)
         ELSE IF i < FreqEnd THEN FreqFeature(xs, i)
         ELSE IF i < TimeLoopEnd THEN TimeFeature(xs, i)
         ELSE Entry("zero", Zero, 0, 0)]

----------------------------------------------------------------------------
(* Inputs *)

SampleVals == (-MaxAmp)..MaxAmp

RECURSIVE SeqsUpTo(_, _)
SeqsUpTo(S, n) ==
  IF n = 0 THEN {<<>>}
  ELSE LET prev == SeqsUpTo(S, n - 1)
       IN  prev \cup {Append(s, x) : s \in {p \in prev : Len(p) = n - 1}, x \in S}

ShortBuffers == {MapSeq(Int2Num, s) : s \in SeqsUpTo(SampleVals, MaxLen)}

ZeroBuffer(n) == [j \in 1..n |-> Zero]
PatternBuffer(n) == [j \in 1..n |-> Int2Num((j % 3) - 1)]

LongLens == {NumTimeWindows + e : e \in 0..MaxExtra} \cup {2 * NumTimeWindows}

Buffers ==
  ShortBuffers
    \cup {PatternBuffer(n) : n \in LongLens}
    \cup {ZeroBuffer(DefaultWindow), ZeroBuffer(ScenarioLen)}

Rates == {10, 20, 40, DefaultRate}

WindowSizes == (1..MaxWin) \cup {DefaultWindow}

Overlaps == {<<0, 1>>, <<1, 4>>, <<1, 2>>, <<3, 4>>, <<1, 1>>, <<3, 2>>}
DefaultOverlap == <<1, 2>>

----------------------------------------------------------------------------
(* The state machine: a buffer is drawn, then operations are applied to it *)

\* no call made on a bare buffer
CoreIdle ==
  /\ data = <<>>
  /\ sfreq = DefaultRate
  /\ op = "none"
  /\ args = <<>>
  /\ result = NoResult

\* useSpectrogram not mounted
HookIdle ==
  /\ hookData = Null
  /\ hookParams = <<DefaultWindow, DefaultOverlap>>
  /\ powerSeed = <<0, 0, 0>>
  /\ spectrogramData = Null
  /\ frequencyBands = Null
  /\ hookOutcome = [rendered |-> FALSE, caught |-> "none", kind |-> "none"]

\* the consumers of the page's data
Consumers == {"EEGVisualizer", "SpectrogramVisualizer", "ModelInference"}

\* the dashboard right after mount: useState(null), useState(false)
PageIdle ==
  /\ rawData = Null
  /\ processedData = Null
  /\ isLoading = FALSE
  /\ loadError = Null
  /\ pendingLoads = 0
  /\ handed = [c \in Consumers |-> Null]

\* no call in a slot
NoCall ==
  [op |-> "none", pc |-> "idle", eegData |-> Null, features |-> Null,
   sawSession |-> FALSE, prediction |-> Null,
   createFailed |-> FALSE, runThrew |-> FALSE]

\* a new ONNXModelInference(): session = null, isLoaded = false
ModelIdle ==
  /\ session = Null
  /\ isLoaded = FALSE
  /\ calls = [i \in 1..MaxCalls |-> NoCall]
  /\ remembered = Null
  /\ live = 0
  /\ versions = {}

Refs == 1..MaxRefs
NoFrameCall == [op |-> "none", arg |-> 0, argBefore |-> Null, out |-> 0, outWasFree |-> FALSE]

\* nothing allocated
\* the component and the hook right after mount
UiIdle ==
  /\ eegProp = Null
  /\ isRunning = FALSE
  /\ progress = 0
  /\ analysisPrediction = Null
  /\ analysisError = Null
  /\ runPc = "idle"
  /\ runData = Null
  /\ resetTimers = 0
  /\ inferenceLoading = FALSE
  /\ inferencePrediction = Null
  /\ inferenceError = Null
  /\ inflight = [i \in 1..MaxInflight |-> Null]

FrameIdle ==
  /\ heap = [r \in Refs |-> Null]
  /\ subject = 1
  /\ original = <<>>
  /\ lastCall = NoFrameCall

Init ==
  /\ data \in Buffers
  /\ sfreq \in Rates
  /\ op = "none"
  /\ args = <<>>
  /\ result = NoResult
  /\ HookIdle
  /\ PageIdle
  /\ ModelIdle
  /\ FrameIdle /\ UiIdle

\* EEGPreprocessor.preprocess(data.data, data.sfreq)
Condition ==
  /\ op = "none"
  /\ op' = "condition"
  /\ args' = <<>>
  /\ result' = preprocess(data, sfreq)
  /\ UNCHANGED <<data, sfreq, outsideCore>>

\* SpectrogramGenerator.generateSpectrogram(data.data, data.sfreq, windowSize, overlap)
Analyze ==
  \E windowSize \in WindowSizes, overlap \in Overlaps :
    /\ op = "none"
    /\ op' = "analyze"
    /\ args' = <<windowSize, overlap>>
    /\ result' = generateSpectrogram(data, sfreq, windowSize, overlap)
    /\ UNCHANGED <<data, sfreq, outsideCore>>

\* the feature extraction step of ONNXModelInference.predict(eegData)
Extract ==
  /\ op = "none"
  /\ op' = "extract"
  /\ args' = <<>>
  /\ result' = Returned(prepareInput(data))
  /\ UNCHANGED <<data, sfreq, outsideCore>>

\* the caller is done with the returned value (or has handled the error) and
\* is free to call again on the same buffer
\* EEGPreprocessor.bandpassFilter(data, sfreq) called on its own
Smooth ==
  /\ op = "none"
  /\ op' = "smooth"
  /\ args' = <<>>
  /\ result' = Returned(bandpassFilter(data, sfreq))
  /\ UNCHANGED <<data, sfreq, outsideCore>>

Discard ==
  /\ op # "none"
  /\ op' = "none"
  /\ args' = <<>>
  /\ result' = NoResult
  /\ UNCHANGED <<data, sfreq, outsideCore>>

Next == Condition \/ Analyze \/ Extract \/ Smooth \/ Discard

Spec == Init /\ [][Next]_vars

----------------------------------------------------------------------------
(* useSpectrogram: the spectrogram memo and the band powers *)

\* Math.log10(real * real + imag * imag + 1e-10) is a real number the model
\* does not compute: the environment fixes it per cell through powerSeed
LogPower(seed, cell, windowIdx) ==
  Int2Num(((seed[1] * cell.bin + seed[2] * windowIdx + seed[3]) % 5) - 2)

\* the spectrogram with its power cells valued
Valued(sp, seed) ==
  [frequencies |-> sp.frequencies,
   times |-> sp.times,
   power |-> [k \in 1..Len(sp.power) |->
                [w \in 1..Len(sp.power[k]) |-> LogPower(seed, sp.power[k][w], w - 1)]]]

\* the upper end of the band left out
bandIndicesOpenAbove(frequencies, minFreq, maxFreq) ==
  {k \in 1..Len(frequencies) :
     Leq(minFreq, frequencies[k]) /\ Lt(frequencies[k], maxFreq)}

\* frequencies.map(...).filter(({ freq }) => freq >= minFreq && freq <= maxFreq)
bandIndices(frequencies, minFreq, maxFreq) ==
  {k \in 1..Len(frequencies) :
     Leq(minFreq, frequencies[k]) /\ Leq(frequencies[k], maxFreq)}

\* power.filter((_, freqIdx) => bandIndices.includes(freqIdx)).flat(): the
\* selected rows one after the other, in the order of the rows
RECURSIVE FlatRows(_, _, _)
FlatRows(power, rows, k) ==
  IF k > Len(power) THEN <<>>
  ELSE (IF k \in rows THEN power[k] ELSE <<>>) \o FlatRows(power, rows, k + 1)

\* the mean taken even when no row is selected
getBandPowerNoGuard(sp, minFreq, maxFreq) ==
  LET bandPowers == FlatRows(sp.power, bandIndices(sp.frequencies, minFreq, maxFreq), 1)
  IN  Div(SumRange(bandPowers, 1, Len(bandPowers)), Int2Num(Len(bandPowers)))

getBandPower(sp, minFreq, maxFreq) ==
  LET rows == bandIndices(sp.frequencies, minFreq, maxFreq)
      bandPowers == FlatRows(sp.power, rows, 1)
  IN  IF Cardinality(rows) = 0 THEN Zero
      ELSE Div(SumRange(bandPowers, 1, Len(bandPowers)), Int2Num(Len(bandPowers)))

\* the five bands and their limits in Hz
BandNames == {"delta", "theta", "alpha", "beta", "gamma"}
BandLo(b) ==
  CASE b = "delta" -> Q(1, 2) [] b = "theta" -> Int2Num(4) [] b = "alpha" -> Int2Num(8)
    [] b = "beta" -> Int2Num(13) [] OTHER -> Int2Num(30)
BandHi(b) ==
  CASE b = "delta" -> Int2Num(4) [] b = "theta" -> Int2Num(8) [] b = "alpha" -> Int2Num(13)
    [] b = "beta" -> Int2Num(30) [] OTHER -> Int2Num(100)

frequencyBandsOf(sp) == [b \in BandNames |-> getBandPower(sp, BandLo(b), BandHi(b))]

\* the inputs of the hook: buffers long enough for windows whose bins fall on
\* whole and half Hertz, and short ones
HookBuffers == {PatternBuffer(1), PatternBuffer(3), PatternBuffer(NumTimeWindows)}
HookRates == {16, 32, 64}
HookWindows == {4, 32, 64}
HookOverlaps == {<<1, 2>>, <<1, 1>>}
Seeds == {<<a, b, c>> : a \in 0..MaxSeed, b \in 0..MaxSeed, c \in 0..(MaxSeed + 1)}

HookInit ==
  /\ CoreIdle
  /\ PageIdle
  /\ ModelIdle
  /\ FrameIdle /\ UiIdle
  /\ hookData \in {Some([data |-> b, sfreq |-> r]) : b \in HookBuffers, r \in HookRates}
  /\ hookParams \in HookWindows \X HookOverlaps
  /\ powerSeed \in Seeds
  /\ spectrogramData = Null
  /\ frequencyBands = Null
  /\ hookOutcome = [rendered |-> FALSE, caught |-> "none", kind |-> "none"]

\* the body of useSpectrogram for the current arguments: both memos are
\* computed and the hook returns
RenderHook ==
  /\ ~hookOutcome.rendered
  /\ LET r == IF IsNull(hookData) THEN NoResult
              ELSE generateSpectrogram(hookData[1].data, hookData[1].sfreq,
                                       hookParams[1], hookParams[2])
         sd == IF r.kind = "return" THEN Some(Valued(r.value, powerSeed)) ELSE Null
     IN  /\ spectrogramData' = sd
         /\ frequencyBands' = IF IsNull(sd) THEN Null ELSE Some(frequencyBandsOf(sd[1]))
         /\ hookOutcome' = [rendered |-> TRUE, caught |-> r.err, kind |-> "return"]
  /\ UNCHANGED <<hookData, hookParams, powerSeed, outsideHook>>

\* the component is given data = null and renders again
ClearHookData ==
  /\ hookOutcome.rendered
  /\ ~IsNull(hookData)
  /\ hookData' = Null
  /\ spectrogramData' = Null
  /\ frequencyBands' = Null
  /\ hookOutcome' = [rendered |-> TRUE, caught |-> "none", kind |-> "return"]
  /\ UNCHANGED <<hookParams, powerSeed, outsideHook>>

HookNext == RenderHook \/ ClearHookData

SpecHook == HookInit /\ [][HookNext]_vars

----------------------------------------------------------------------------
(* NeuroInsightDashboard: useEEGData and the three consumers of its data *)

\* what generateSampleEEG(10, 250) can return: 2500 samples at 250 Hz
SyntheticDatasets == {[data |-> PatternBuffer(ScenarioLen), sfreq |-> DefaultRate]}
\* what response.json() can return: whatever the sample file holds
FileDatasets == {[data |-> PatternBuffer(n), sfreq |-> 2 * FilterDivisor] : n \in 0..MaxFileLen}
\* a sample file whose JSON object has no data property: response.json()
\* returns it as it is, typed EEGData without any check
MalformedDatasets == {[sfreq |-> 2 * FilterDivisor]}
\* SampleDataGenerator.loadSampleData: the file, or generated data as a fallback
LoadableDatasets == FileDatasets \cup MalformedDatasets \cup SyntheticDatasets

\* EEGPreprocessor.preprocess(data.data, data.sfreq) for each dataset that can
\* be loaded, computed once; [...data] of an undefined data throws
preprocessOf ==
  [d \in LoadableDatasets |->
     IF "data" \in DOMAIN d THEN preprocess(d.data, d.sfreq) ELSE Thrown("TypeError")]

\* setRawData(data), preprocess, setProcessedData({...data, data: processed}),
\* setError in the catch, setIsLoading(false) in the finally; the page renders
\* again and its consumers have not yet used their new props
StoreLoaded(d) ==
  LET r == preprocessOf[d]
  IN  /\ rawData' = Some(d)
      /\ processedData' = IF r.kind = "return"
                            THEN Some([d EXCEPT !.data = r.value])
                            ELSE processedData
      /\ loadError' = IF r.kind = "return" THEN Null ELSE Some(r.err)
      /\ isLoading' = FALSE
      /\ handed' = [c \in Consumers |-> Null]

\* generateSyntheticData: synchronous, start to finish
GenerateSyntheticData ==
  \E d \in SyntheticDatasets :
    /\ StoreLoaded(d)
    /\ UNCHANGED <<pendingLoads, outsidePage>>

\* loadSampleData up to its await
LoadSampleStart ==
  /\ pendingLoads < MaxPending
  /\ pendingLoads' = pendingLoads + 1
  /\ isLoading' = TRUE
  /\ loadError' = Null
  /\ UNCHANGED <<rawData, processedData, handed, outsidePage>>

\* loadSampleData after its await
LoadSampleFinish ==
  \E d \in LoadableDatasets :
    /\ pendingLoads > 0
    /\ pendingLoads' = pendingLoads - 1
    /\ StoreLoaded(d)
    /\ UNCHANGED outsidePage

ClearData ==
  /\ rawData # Null \/ processedData # Null \/ loadError # Null
  /\ rawData' = Null
  /\ processedData' = Null
  /\ loadError' = Null
  /\ handed' = [c \in Consumers |-> Null]
  /\ UNCHANGED <<isLoading, pendingLoads, outsidePage>>

\* a stand-in that passes the data as loaded
propOfRaw(raw, processed) == raw

\* data={processedData} and eegData={processedData}
propOf(raw, processed) == processed

\* a consumer uses its data prop: EEGVisualizer charts data.data,
\* SpectrogramVisualizer calls generateSpectrogram(data.data, data.sfreq), and
\* ModelInference.runAnalysis calls predict(eegData), whose prepareInput reads
\* eegData.data.  Each of them does nothing with a null prop.
Consume(c) ==
  LET prop == propOf(rawData, processedData)
  IN  /\ ~IsNull(prop)
      /\ handed' = [handed EXCEPT ![c] =
                      Some([buffer |-> prop[1].data, raw |-> rawData, processed |-> processedData])]
      /\ UNCHANGED <<rawData, processedData, isLoading, loadError, pendingLoads, outsidePage>>

ShowSignal == Consume("EEGVisualizer")
ShowSpectrogram == Consume("SpectrogramVisualizer")
RunAnalysis == Consume("ModelInference")

PageInit == CoreIdle /\ HookIdle /\ PageIdle /\ ModelIdle /\ FrameIdle /\ UiIdle

PageNext ==
  \/ GenerateSyntheticData
  \/ LoadSampleStart
  \/ LoadSampleFinish
  \/ ClearData
  \/ ShowSignal
  \/ ShowSpectrogram
  \/ RunAnalysis

SpecPage == PageInit /\ [][PageNext]_vars

----------------------------------------------------------------------------
(* ONNXModelInference: loadModel, predict and dispose on one instance.  The
   code between two awaits runs without interruption; at an await any other
   call may run. *)

\* the vector with its frequency projections taken at the rate of the data
featuresAtOwnRate(eegData) ==
  [k \in 1..FeatureLen |->
     LET e == prepareInput(eegData.data)[k]
     IN  IF e.v.t = "cosproj" THEN [e EXCEPT !.v.d = NumFreq * eegData.sfreq] ELSE e]

\* the vector left at new Float32Array(128) unless a model is loaded
featuresWhenLoaded(eegData) ==
  IF isLoaded THEN prepareInput(eegData.data)
  ELSE [k \in 1..FeatureLen |-> Entry("zero", Zero, 0, 0)]

\* const features = this.prepareInput(eegData.data)
featuresOf(eegData) == prepareInput(eegData.data)

Labels == {"Schizophrenia", "Healthy Control"}
\* a mock that marks its predictions as the real model does
MockVersionUnmarked == "CNN v1.0"
MockVersion == "Mock CNN v1.0 (Demo)"
RealVersion == "CNN v1.0"

\* complexity > 0.5 && Math.abs(mean) < 0.1 with complexity = std /
\* (Math.abs(mean) + 0.001); std is the square root of a rational, so the
\* first comparison is made on the squares
isSchizophrenia(features) ==
  LET mean == features[1].v
      std == features[2].v
      bound == Mul(Q(1, 2), Add(MathAbs(mean), Q(1, 1000)))
  IN  /\ std.t = "sqrt"
      /\ Lt(Mul(bound, bound), [std EXCEPT !.t = "rat"])
      /\ Lt(MathAbs(mean), Q(1, 10))

\* Math.min(0.95, 0.7 + Math.random() * 0.25)
mockConfidence(random) ==
  MathMin(<<Q(95, 100), Add(Q(7, 10), Mul(random, Q(1, 4)))>>)

generateMockPrediction(features, random) ==
  [prediction |-> IF isSchizophrenia(features) THEN "Schizophrenia" ELSE "Healthy Control",
   confidence |-> mockConfidence(random),
   modelVersion |-> MockVersion]

\* a value in a condition: 0, NaN and undefined count as false
Truthy(x) == ~IsNaN(x) /\ x # Zero

\* predictions[0], predictions[1] || 1 - predictions[0], and the result built
\* from them; predictions[1] is undefined for an output of one value
realPrediction(predictions) ==
  LET schizophreniaProb == predictions[1]
      healthyProb == IF Len(predictions) >= 2 /\ Truthy(predictions[2])
                     THEN predictions[2]
                     ELSE Sub(Int2Num(1), schizophreniaProb)
  IN  [prediction |-> IF Lt(healthyProb, schizophreniaProb)
                      THEN "Schizophrenia" ELSE "Healthy Control",
       confidence |-> MathMax(<<schizophreniaProb, healthyProb>>),
       modelVersion |-> RealVersion]

\* what Math.random() can return, in [0, 1)
RandomDraws == {Zero, Q(99, 100)}

\* what the output tensor of the loaded model can hold: the model file is not
\* part of the code, and its values are not checked
OutputValues == {Q(1, 4), Q(3, 2), NaN}
ModelOutputs ==
  {<<x>> : x \in OutputValues} \cup {<<x, y>> : x \in OutputValues, y \in OutputValues}

\* the buffers predict is given: conditioned buffers, among them the all-NaN
\* buffer that preprocess returns for a constant signal
ModelBuffers ==
  {PatternBuffer(n) : n \in (MaxModelLen - 1)..MaxModelLen}
    \cup {preprocess(ZeroBuffer(MaxModelLen - 1), 2 * FilterDivisor).value}
ModelRates == {2 * FilterDivisor, DefaultRate}
ModelDatasets == {[data |-> b, sfreq |-> r] : b \in ModelBuffers, r \in ModelRates}

Slots == 1..MaxCalls

\* loadModel up to its first await: nothing to do when already loaded
AfterLoadCheck(isPredict) ==
  IF isLoaded /\ session # Null
  THEN (IF isPredict THEN "loaded" ELSE "done")
  ELSE "creating"

StartLoadModel ==
  \E i \in Slots :
    /\ calls[i].op = "none"
    /\ calls' = [calls EXCEPT ![i] = [NoCall EXCEPT !.op = "loadModel", !.pc = AfterLoadCheck(FALSE)]]
    /\ UNCHANGED <<session, isLoaded, remembered, live, versions, outsideModel>>

\* predict up to its first await, which is inside or on loadModel
StartPredict ==
  \E i \in Slots, d \in ModelDatasets :
    /\ calls[i].op = "none"
    /\ calls' = [calls EXCEPT ![i] = [NoCall EXCEPT !.op = "predict", !.pc = AfterLoadCheck(TRUE),
                                                   !.eegData = Some(d)]]
    /\ UNCHANGED <<session, isLoaded, remembered, live, versions, outsideModel>>

\* ort.InferenceSession.create resolves; the session that was in the field,
\* if any, is overwritten and nothing releases it
CreateSucceeds ==
  \E i \in Slots :
    /\ calls[i].pc = "creating"
    /\ live < MaxLive
    /\ session' = Some("InferenceSession")
    /\ isLoaded' = TRUE
    /\ live' = live + 1
    /\ calls' = [calls EXCEPT ![i].pc = IF calls[i].op = "predict" THEN "loaded" ELSE "done"]
    /\ UNCHANGED <<remembered, versions, outsideModel>>

\* a loadModel whose rejection of create would reach its caller
afterCreateRethrown(call) ==
  [call EXCEPT !.pc = "rejected", !.createFailed = TRUE]

\* the inner catch of loadModel: the rejection is logged and loadModel
\* completes
afterCreateFails(call) ==
  [call EXCEPT !.pc = IF call.op = "predict" THEN "loaded" ELSE "done",
               !.createFailed = TRUE]

\* ort.InferenceSession.create rejects: the inner catch
CreateFails ==
  \E i \in Slots :
    /\ calls[i].pc = "creating"
    /\ isLoaded' = FALSE
    /\ calls' = [calls EXCEPT ![i] = afterCreateFails(calls[i])]
    /\ UNCHANGED <<session, remembered, live, versions, outsideModel>>

\* predict after await this.loadModel(): the features, then either the start
\* of session.run or the mock prediction
ExtractFeatures ==
  \E i \in Slots, random \in RandomDraws :
    /\ calls[i].pc = "loaded"
    /\ LET features == featuresOf(calls[i].eegData[1])
           usable == session # Null /\ isLoaded
           mock == generateMockPrediction(features, random)
       IN  /\ calls' = [calls EXCEPT
                          ![i].features = Some(features),
                          ![i].sawSession = usable,
                          ![i].pc = IF usable THEN "running" ELSE "done",
                          ![i].prediction = IF usable THEN Null ELSE Some(mock)]
           /\ versions' = IF usable THEN versions ELSE versions \cup {mock.modelVersion}
    /\ UNCHANGED <<session, isLoaded, remembered, live, outsideModel>>

\* session.run resolves
RunResolves ==
  \E i \in Slots, predictions \in ModelOutputs :
    /\ calls[i].pc = "running"
    /\ calls' = [calls EXCEPT ![i].pc = "done",
                              ![i].prediction = Some(realPrediction(predictions))]
    /\ versions' = versions \cup {realPrediction(predictions).modelVersion}
    /\ UNCHANGED <<session, isLoaded, remembered, live, outsideModel>>

\* session.run rejects, or the output is not there: the catch in predict
RunThrows ==
  \E i \in Slots, random \in RandomDraws :
    /\ calls[i].pc = "running"
    /\ LET mock == generateMockPrediction(calls[i].features[1], random)
       IN  /\ calls' = [calls EXCEPT ![i].pc = "done",
                                     ![i].runThrew = TRUE,
                                     ![i].prediction = Some(mock)]
           /\ versions' = versions \cup {mock.modelVersion}
    /\ UNCHANGED <<session, isLoaded, remembered, live, outsideModel>>

Dispose ==
  /\ session # Null
  /\ session' = Null
  /\ isLoaded' = FALSE
  /\ live' = live - 1
  /\ UNCHANGED <<calls, remembered, versions, outsideModel>>

\* the caller is done with a settled call
Settle ==
  \E i \in Slots :
    /\ calls[i].pc = "done"
    /\ calls' = [calls EXCEPT ![i] = NoCall]
    /\ UNCHANGED <<session, isLoaded, remembered, live, versions, outsideModel>>

ModelInit == CoreIdle /\ HookIdle /\ PageIdle /\ ModelIdle /\ FrameIdle /\ UiIdle

ModelNext ==
  \/ StartLoadModel
  \/ StartPredict
  \/ CreateSucceeds
  \/ CreateFails
  \/ ExtractFeatures
  \/ RunResolves
  \/ RunThrows
  \/ Dispose
  \/ Settle

SpecModel == ModelInit /\ [][ModelNext]_vars

----------------------------------------------------------------------------
(* One caller using the instance and the static functions one call after the
   other, and keeping one of the feature vectors it has seen *)

\* no call on the instance is in progress
Alone == \A i \in Slots : calls[i].op = "none"

\* the extraction of a call is kept for later comparison
Remember ==
  \E i \in Slots :
    /\ ~IsNull(calls[i].features)
    /\ remembered' = Some([eegData |-> calls[i].eegData[1],
                           features |-> calls[i].features[1],
                           sawSession |-> calls[i].sawSession])
    /\ remembered' # remembered
    /\ UNCHANGED <<session, isLoaded, calls, live, versions, outsideModel>>

CallLoadModel == Alone /\ op = "none" /\ StartLoadModel
CallPredict == Alone /\ op = "none" /\ StartPredict
CallDispose == Alone /\ op = "none" /\ Dispose
CallCondition == Alone /\ Condition
CallAnalyze == Alone /\ Analyze
DropResult == Alone /\ Discard

SessionInit ==
  /\ data \in ModelBuffers
  /\ sfreq = 2 * FilterDivisor
  /\ op = "none"
  /\ args = <<>>
  /\ result = NoResult
  /\ HookIdle
  /\ PageIdle
  /\ ModelIdle
  /\ FrameIdle /\ UiIdle

SessionNext ==
  \/ CallLoadModel
  \/ CallPredict
  \/ CallDispose
  \/ CallCondition
  \/ CallAnalyze
  \/ DropResult
  \/ CreateSucceeds
  \/ CreateFails
  \/ ExtractFeatures
  \/ RunResolves
  \/ RunThrows
  \/ Settle
  \/ Remember

SpecSession == SessionInit /\ [][SessionNext]_vars

----------------------------------------------------------------------------
(* The three steps on the heap: which objects a call reads, which it writes
   and which it creates *)

Cell(kind, value) == Some([kind |-> kind, value |-> value])
FreeRefs(h) == {r \in Refs : IsNull(h[r])}
SampleRefs(h) == {r \in Refs : ~IsNull(h[r]) /\ h[r][1].kind = "samples"}
NextFree(h) == CHOOSE r \in FreeRefs(h) : \A q \in FreeRefs(h) : r <= q

\* the result written over the argument, which is then returned
preprocessInPlace(h, ref, rate) ==
  [heap |-> [h EXCEPT ![ref] = Cell("samples", preprocess(h[ref][1].value, rate).value)],
   out |-> ref]

\* preprocess: data.map in removeDCOffset, new Array(data.length) in
\* bandpassFilter, data.map in normalize; data itself is only read
preprocessOnHeap(h, ref, rate) ==
  [heap |-> [h EXCEPT ![NextFree(h)] = Cell("samples", preprocess(h[ref][1].value, rate).value)],
   out |-> NextFree(h)]

\* generateSpectrogram: data.slice and windowData.map make new arrays; the
\* result is a new object; nothing is created when it throws
generateSpectrogramOnHeap(h, ref, rate, windowSize, overlap) ==
  LET r == generateSpectrogram(h[ref][1].value, rate, windowSize, overlap)
  IN  IF r.kind = "return"
      THEN [heap |-> [h EXCEPT ![NextFree(h)] = Cell("spectrogram", r.value)],
            out |-> NextFree(h)]
      ELSE [heap |-> h, out |-> 0]

\* prepareInput: new Float32Array(128) is written, data is only read
prepareInputOnHeap(h, ref) ==
  [heap |-> [h EXCEPT ![NextFree(h)] = Cell("features", prepareInput(h[ref][1].value))],
   out |-> NextFree(h)]

FrameBuffers == {PatternBuffer(n) : n \in 1..MaxModelLen}
FrameRates == {2 * FilterDivisor, DefaultRate}
FrameWindows == {2, DefaultWindow}

\* a call with argument ref and effect e is recorded
Called(step, ref, e) ==
  /\ heap' = e.heap
  /\ lastCall' = [op |-> step, arg |-> ref, argBefore |-> heap[ref], out |-> e.out,
                  outWasFree |-> e.out \in FreeRefs(heap)]
  /\ UNCHANGED <<subject, original, outsideFrame>>

\* preprocess is called on the buffer as loaded; the other two steps are
\* called on it (the test suite) and on the conditioned buffer (the dashboard)
ConditionOnHeap ==
  \E rate \in FrameRates :
    /\ FreeRefs(heap) # {}
    /\ Called("condition", subject, preprocessOnHeap(heap, subject, rate))

AnalyzeOnHeap ==
  \E ref \in SampleRefs(heap), rate \in FrameRates, windowSize \in FrameWindows :
    /\ FreeRefs(heap) # {}
    /\ Called("analyze", ref, generateSpectrogramOnHeap(heap, ref, rate, windowSize, DefaultOverlap))

ExtractOnHeap ==
  \E ref \in SampleRefs(heap) :
    /\ FreeRefs(heap) # {}
    /\ Called("extract", ref, prepareInputOnHeap(heap, ref))

\* an object other than the loaded buffer is no longer referenced
Release ==
  \E r \in Refs \ {subject} :
    /\ ~IsNull(heap[r])
    /\ heap' = [heap EXCEPT ![r] = Null]
    /\ lastCall' = NoFrameCall
    /\ UNCHANGED <<subject, original, outsideFrame>>

FrameInit ==
  /\ CoreIdle /\ HookIdle /\ PageIdle /\ ModelIdle /\ UiIdle
  /\ subject = 1
  /\ original \in FrameBuffers
  /\ heap = [r \in Refs |-> IF r = subject THEN Cell("samples", original) ELSE Null]
  /\ lastCall = NoFrameCall

FrameNext == ConditionOnHeap \/ AnalyzeOnHeap \/ ExtractOnHeap \/ Release

SpecFrame == FrameInit /\ [][FrameNext]_vars

----------------------------------------------------------------------------
(* The callers of predict: the ModelInference component (model-inference.tsx)
   and the hook useModelInference.  To both, predict is a promise that
   resolves with a prediction or rejects with an error. *)

\* the eegData the page can pass on
UiDatasets == ModelDatasets

\* how modelInstance.predict(eegData) can settle: with the mock prediction,
\* with the real model's, or with a rejection (prepareInput is outside the
\* try of predict)
PredictOutcomes(eegData) ==
  {Returned(generateMockPrediction(featuresOf(eegData), r)) : r \in RandomDraws}
    \cup {Returned(realPrediction(o)) : o \in ModelOutputs}
    \cup {Thrown("RangeError")}

\* the page renders the component with another eegData
SetProp ==
  \E p \in {Null} \cup {Some(d) : d \in UiDatasets} :
    /\ p # eegProp
    /\ eegProp' = p
    /\ UNCHANGED <<isRunning, progress, analysisPrediction, analysisError, runPc, runData,
                   resetTimers, inferVars, outsideUi>>

\* a click on the button, which is disabled while !eegData || isRunning:
\* runAnalysis up to its first await
ClickRunAnalysis ==
  /\ ~(eegProp = Null \/ isRunning)
  /\ isRunning' = TRUE
  /\ analysisError' = Null
  /\ analysisPrediction' = Null
  /\ progress' = 20
  /\ runPc' = "sleep1"
  /\ runData' = eegProp
  /\ UNCHANGED <<eegProp, resetTimers, inferVars, outsideUi>>

\* one of the three 500 ms waits is over.  A reset timer that was pending
\* when the run began is due 1000 ms after the previous run ended, so it has
\* fired by the time the second wait is over
SleepEnds ==
  /\ runPc \in {"sleep1", "sleep2", "sleep3"}
  /\ runPc = "sleep2" => resetTimers = 0
  /\ progress' = CASE runPc = "sleep1" -> 40
                   [] runPc = "sleep2" -> 60
                   [] runPc = "sleep3" -> 80
  /\ runPc' = CASE runPc = "sleep1" -> "sleep2"
                [] runPc = "sleep2" -> "sleep3"
                [] runPc = "sleep3" -> "predicting"
  /\ UNCHANGED <<eegProp, isRunning, analysisPrediction, analysisError, runData,
                 resetTimers, inferVars, outsideUi>>

\* predict settles: the rest of the try or the catch, then the finally
AnalysisSettles ==
  /\ runPc = "predicting"
  /\ \E out \in PredictOutcomes(runData[1]) :
       /\ progress' = IF out.kind = "return" THEN 100 ELSE progress
       /\ analysisPrediction' = IF out.kind = "return" THEN Some(out.value)
                                 ELSE analysisPrediction
       /\ analysisError' = IF out.kind = "return" THEN analysisError ELSE Some(out.err)
  /\ isRunning' = FALSE
  /\ resetTimers' = resetTimers + 1
  /\ runPc' = "idle"
  /\ runData' = Null
  /\ UNCHANGED <<eegProp, inferVars, outsideUi>>

\* setTimeout(() => setProgress(0), 1000) is due
ResetTimerFires ==
  /\ resetTimers > 0
  /\ resetTimers' = resetTimers - 1
  /\ progress' = 0
  /\ UNCHANGED <<eegProp, isRunning, analysisPrediction, analysisError, runPc, runData,
                 inferVars, outsideUi>>

ComponentInit == CoreIdle /\ HookIdle /\ PageIdle /\ ModelIdle /\ FrameIdle /\ UiIdle

ComponentNext ==
  \/ SetProp
  \/ ClickRunAnalysis
  \/ SleepEnds
  \/ AnalysisSettles
  \/ ResetTimerFires

SpecComponent == ComponentInit /\ [][ComponentNext]_vars

InferenceSlots == 1..MaxInflight

\* runInference up to its await
RunInferenceStart ==
  \E i \in InferenceSlots, d \in UiDatasets :
    /\ inflight[i] = Null
    /\ inflight' = [inflight EXCEPT ![i] = Some(d)]
    /\ inferenceLoading' = TRUE
    /\ inferenceError' = Null
    /\ inferencePrediction' = Null
    /\ UNCHANGED <<compVars, outsideUi>>

\* predict settles: setPrediction(result), or the catch, then the finally
RunInferenceSettles ==
  \E i \in InferenceSlots :
    /\ inflight[i] # Null
    /\ \E out \in PredictOutcomes(inflight[i][1]) :
         /\ inferencePrediction' = IF out.kind = "return" THEN Some(out.value)
                                    ELSE inferencePrediction
         /\ inferenceError' = IF out.kind = "return" THEN inferenceError
                               ELSE Some(out.err)
    /\ inferenceLoading' = FALSE
    /\ inflight' = [inflight EXCEPT ![i] = Null]
    /\ UNCHANGED <<compVars, outsideUi>>

ClearResults ==
  /\ inferencePrediction # Null \/ inferenceError # Null
  /\ inferencePrediction' = Null
  /\ inferenceError' = Null
  /\ UNCHANGED <<inferenceLoading, inflight, compVars, outsideUi>>

InferenceInit == CoreIdle /\ HookIdle /\ PageIdle /\ ModelIdle /\ FrameIdle /\ UiIdle

InferenceNext == RunInferenceStart \/ RunInferenceSettles \/ ClearResults

SpecInference == InferenceInit /\ [][InferenceNext]_vars

----------------------------------------------------------------------------
(* Properties of the Signal Conditioner *)

One == Int2Num(1)
MaxAbs(xs) == MathMax(MapSeq(MathAbs, xs))
Conditioned == op = "condition"

\* C1: whenever the largest absolute sample after DC-offset removal and
\* smoothing is zero, condition signals an error (DegenerateSignalError) and
\* returns no output buffer. Any thrown error is accepted as that signal.
C1_DegenerateSignalIsSignalled ==
  (Conditioned /\ MaxAbs(Smoothed(data, sfreq)) = Zero) => result.kind = "throw"

\* C2: condition called on an empty buffer fails (EmptyInputError) and returns
\* no buffer, empty or otherwise. Any thrown error is accepted as that failure.
C2_EmptyInputIsSignalled ==
  (Conditioned /\ Len(data) = 0) => result.kind = "throw"

\* C5: for every non-empty buffer, every sample of the output of condition has
\* absolute value at most 1. Stated for the sampling rates whose smoothing
\* window holds at least one sample on each side (rate >= 20).
C5_OutputWithinUnitRange ==
  (Conditioned /\ Len(data) > 0 /\ HalfWindow(sfreq) >= 1) =>
    /\ result.kind = "return"
    /\ \A i \in 1..Len(result.value) : Leq(MathAbs(result.value[i]), One)

----------------------------------------------------------------------------
(* Properties of the Spectral Analyzer *)

Analyzed == op = "analyze"
ArgWindow == args[1]
ArgHop == hopSize(args[1], args[2])

\* C3: analyze called with a buffer shorter than windowSize signals an error
\* (InsufficientSamplesError) and produces no spectrogram, never one with an
\* empty time axis. Stated for non-empty buffers and valid hops (hopSize >= 1);
\* any thrown error is accepted as that signal.
C3_ShortBufferIsSignalled ==
  (Analyzed /\ ArgHop >= 1 /\ Len(data) > 0 /\ Len(data) < ArgWindow) =>
    result.kind = "throw"

\* C4: analyze called with a windowSize and overlap whose hopSize is less than 1
\* signals an error (InvalidWindowError) and returns nothing. Stated for
\* non-empty buffers; any thrown error is accepted as that signal.
C4_InvalidHopIsSignalled ==
  (Analyzed /\ Len(data) > 0 /\ ArgHop < 1) => result.kind = "throw"

\* C6: every spectrogram returned has one power row per frequency-axis entry,
\* floor(windowSize/2)+1 of them, and in every row one column per time-axis
\* entry, as many as the window count floor((N - windowSize)/hopSize) + 1.
C6_PowerMatrixShape ==
  (Analyzed /\ result.kind = "return") =>
    LET sp == result.value
    IN  /\ Len(sp.power) = Len(sp.frequencies)
        /\ Len(sp.frequencies) = (ArgWindow \div 2) + 1
        /\ \A i \in 1..Len(sp.power) : Len(sp.power[i]) = Len(sp.times)
        /\ Int2Num(Len(sp.times)) = numWindows(Len(data), ArgWindow, ArgHop)

C6_Witness ==
  /\ Analyzed /\ result.kind = "return"
  /\ Len(result.value.times) > 1
  /\ Len(result.value.power) > 1
  /\ Len(result.value.power[1]) = Len(result.value.times)

\* C7: the frequency axis returned, whose bin k is k*samplingRate/windowSize, is
\* strictly increasing, starts at a value >= 0 and ends at or below
\* samplingRate/2, for odd and even window sizes alike.
C7_FrequencyAxisBounded ==
  (Analyzed /\ result.kind = "return") =>
    LET f == result.value.frequencies
    IN  /\ Len(f) >= 1
        /\ \A k \in 1..Len(f) : f[k] = Div(Int2Num((k - 1) * sfreq), Int2Num(ArgWindow))
        /\ Leq(Zero, f[1])
        /\ \A k \in 1..(Len(f) - 1) : Lt(f[k], f[k + 1])
        /\ Leq(f[Len(f)], Div(Int2Num(sfreq), Int2Num(2)))

C7_Witness ==
  /\ Analyzed /\ result.kind = "return"
  /\ ArgWindow % 2 = 1 /\ ArgWindow > 1
  /\ Lt(result.value.frequencies[Len(result.value.frequencies)],
        Div(Int2Num(sfreq), Int2Num(2)))

\* C8: for every buffer length N >= windowSize and hopSize >= 1, analyze returns
\* exactly floor((N - windowSize)/hopSize) + 1 >= 1 time windows (the largest
\* count whose last window still fits in the buffer) and floor(windowSize/2) + 1
\* frequency bins; N=2500, windowSize=256, overlap=0.5 gives 129 bins and 18
\* windows, and N=windowSize=256 gives exactly 1 window.
C8_WindowAndBinCounts ==
  (Analyzed /\ ArgHop >= 1 /\ Len(data) >= ArgWindow) =>
    /\ result.kind = "return"
    /\ LET nw == Len(result.value.times)
           nb == Len(result.value.frequencies)
           N == Len(data)
       IN  /\ nw >= 1
           /\ nw = ((N - ArgWindow) \div ArgHop) + 1
           /\ (nw - 1) * ArgHop + ArgWindow <= N
           /\ nw * ArgHop + ArgWindow > N
           /\ nb = (ArgWindow \div 2) + 1
           /\ (N = 2500 /\ ArgWindow = 256 /\ args[2] = <<1, 2>>) => (nb = 129 /\ nw = 18)
           /\ (N = 256 /\ ArgWindow = 256) => nw = 1

C8_Witness ==
  /\ Analyzed /\ result.kind = "return"
  /\ Len(data) = ScenarioLen /\ ArgWindow = DefaultWindow /\ args[2] = DefaultOverlap
  /\ Len(result.value.times) = 18
  /\ Len(result.value.frequencies) = 129

----------------------------------------------------------------------------
(* Properties of the Feature Extractor *)

Extracted == op = "extract"

C10_WindowsPartitionBuffer ==
  (Extracted /\ Len(data) >= 64) =>
    LET w(k) == result.value[64 + k + 1]
    IN  /\ w(0).lo = 0
        /\ \A k \in 0..62 : w(k + 1).lo = w(k).hi
        /\ w(63).hi = Len(data)
        /\ \A j \in 0..(Len(data) - 1) :
             Cardinality({k \in 0..63 : w(k).lo <= j /\ j < w(k).hi}) = 1

\* C18: for every buffer length N >= 64 the 64 time windows of extract are
\* pairwise disjoint, all of the same width floor(N/64) >= 1, and inside
\* [0, N), so every window mean is taken over a non-empty set of samples.
C18_WindowsDisjointEqualWidth ==
  (Extracted /\ Len(data) >= 64) =>
    LET w(k) == result.value[64 + k + 1]
        N == Len(data)
    IN  /\ \A k \in 0..63 :
             /\ 0 <= w(k).lo /\ w(k).hi <= N
             /\ w(k).hi - w(k).lo = N \div 64
             /\ w(k).hi - w(k).lo >= 1
             /\ IsRat(w(k).v)
        /\ \A k \in 0..63 : \A m \in 0..63 :
             k < m => w(k).hi <= w(m).lo

C18_Witness ==
  /\ Extracted /\ Len(data) = 65
  /\ result.value[128].lo = 63 /\ result.value[128].hi = 64

----------------------------------------------------------------------------
(* The mean before normalization *)

SumAll(xs) == SumRange(xs, 1, Len(xs))

----------------------------------------------------------------------------
(* useSpectrogram: failures of the analyzer, and the band powers *)

HookRendered == hookOutcome.rendered
HookHasSpectrogram == HookRendered /\ ~IsNull(spectrogramData)

\* C12 as stated: whenever the Spectral Analyzer fails inside useSpectrogram,
\* the failure reaches the caller of the hook as an error; it is not replaced
\* by a null spectrogram with null band powers.  Stated for the default
\* overlap, whose hop is positive.
C12_AnalyzerFailureReachesCaller ==
  (HookRendered /\ hookOutcome.caught # "none" /\ hookParams[2] = DefaultOverlap) =>
    /\ hookOutcome.kind = "throw"
    /\ ~(IsNull(spectrogramData) /\ IsNull(frequencyBands))

\* lo <= f <= hi on the rationals, by cross-multiplication
C14_InClosedRange(f, lo, hi) ==
  /\ f.t = "rat"
  /\ lo.n * f.d <= f.n * lo.d
  /\ f.n * hi.d <= hi.n * f.d

C14_Rows(sp, b) ==
  {k \in 1..Len(sp.frequencies) : C14_InClosedRange(sp.frequencies[k], BandLo(b), BandHi(b))}

\* the total of the entries of the rows of a band
RECURSIVE C14_Total(_, _)
C14_Total(sp, rows) ==
  IF rows = {} THEN Zero
  ELSE LET k == CHOOSE r \in rows : TRUE
       IN  Add(SumRange(sp.power[k], 1, Len(sp.power[k])), C14_Total(sp, rows \ {k}))

\* C14: for each of the five bands with at least one row in [lo, hi], the band
\* power is the total of exactly those rows' entries divided by their number
\* (rows times time windows).  Both ends are inclusive, so a row at exactly
\* 4, 8, 13 or 30 Hz is counted in both adjacent bands, and the row at 0 Hz is
\* counted in none.
C14_BandPowerIsMeanOfClosedRange ==
  HookHasSpectrogram =>
    LET sp == spectrogramData[1]
    IN  /\ ~IsNull(frequencyBands)
        /\ \A b \in BandNames :
             C14_Rows(sp, b) # {} =>
               frequencyBands[1][b] =
                 Div(C14_Total(sp, C14_Rows(sp, b)),
                     Int2Num(Cardinality(C14_Rows(sp, b)) * Len(sp.times)))
        /\ \A b \in BandNames : \A k \in C14_Rows(sp, b) : sp.frequencies[k] # Zero

\* a row at exactly 4 Hz, with entries that move both the delta and the theta mean
C14_Witness ==
  /\ HookHasSpectrogram
  /\ Len(spectrogramData[1].times) >= 2
  /\ spectrogramData[1].frequencies[1] = Zero
  /\ \E k \in 1..Len(spectrogramData[1].frequencies) :
       /\ spectrogramData[1].frequencies[k] = Int2Num(4)
       /\ k \in C14_Rows(spectrogramData[1], "delta")
       /\ k \in C14_Rows(spectrogramData[1], "theta")
       /\ Cardinality(C14_Rows(spectrogramData[1], "delta")) >= 2
       /\ frequencyBands[1]["delta"] #
            Div(C14_Total(spectrogramData[1], C14_Rows(spectrogramData[1], "delta") \ {k}),
                Int2Num((Cardinality(C14_Rows(spectrogramData[1], "delta")) - 1)
                          * Len(spectrogramData[1].times)))
  /\ frequencyBands[1]["delta"].t = "rat"
  /\ frequencyBands[1]["theta"].t = "rat"

\* C15: a band with no frequency-axis value inside its range has power 0, the
\* hook does not fail, and all five bands are present in its result.
C15_EmptyBandIsZero ==
  HookHasSpectrogram =>
    /\ hookOutcome.kind = "return"
    /\ ~IsNull(frequencyBands)
    /\ DOMAIN frequencyBands[1] = BandNames
    /\ \A b \in BandNames :
         C14_Rows(spectrogramData[1], b) = {} => frequencyBands[1][b] = Zero

\* the Nyquist frequency is below 30 Hz: gamma is empty and is 0, while beta
\* is a mean of entries that is not 0
C15_Witness ==
  /\ HookHasSpectrogram
  /\ hookData # Null /\ hookData[1].sfreq < 60
  /\ C14_Rows(spectrogramData[1], "gamma") = {}
  /\ frequencyBands[1]["gamma"] = Zero
  /\ C14_Rows(spectrogramData[1], "beta") # {}
  /\ frequencyBands[1]["beta"].t = "rat"
  /\ frequencyBands[1]["beta"] # Zero

----------------------------------------------------------------------------
(* The dashboard: which buffer reaches which consumer *)

Given(c) == handed[c][1]

\* C11 as stated: the buffer handed to the Feature Extractor (ModelInference
\* -> predict -> prepareInput) is the raw buffer as loaded, while the Spectral
\* Analyzer and the signal view are handed the conditioned buffer.
C11_FeaturesFromRawBuffer ==
  /\ ~IsNull(handed["ModelInference"]) =>
       /\ ~IsNull(Given("ModelInference").raw)
       /\ Given("ModelInference").buffer = Given("ModelInference").raw[1].data
  /\ \A c \in Consumers \ {"ModelInference"} :
       ~IsNull(handed[c]) =>
         /\ ~IsNull(Given(c).processed)
         /\ Given(c).buffer = Given(c).processed[1].data

\* C11 as amended: every consumer, the Feature Extractor included, is handed
\* the conditioned buffer: the output of condition applied to the data as
\* loaded, at the loaded sampling rate.  None is handed the raw buffer object.
C11_AllConsumersGetConditionedBuffer ==
  \A c \in Consumers :
    ~IsNull(handed[c]) =>
      /\ ~IsNull(Given(c).processed)
      /\ ~IsNull(Given(c).raw)
      /\ Given(c).buffer = Given(c).processed[1].data
      /\ \E d \in LoadableDatasets :
           /\ preprocessOf[d].kind = "return"
           /\ Given(c).processed[1] = [d EXCEPT !.data = preprocessOf[d].value]

\* an analysis run on loaded data whose conditioned buffer differs from the raw one
C11_Witness ==
  /\ ~IsNull(handed["ModelInference"])
  /\ Len(Given("ModelInference").buffer) > 1
  /\ "data" \in DOMAIN Given("ModelInference").raw[1]
  /\ Given("ModelInference").buffer # Given("ModelInference").raw[1].data
  /\ Given("ModelInference").buffer = Given("ModelInference").processed[1].data
  /\ ~IsNull(handed["SpectrogramVisualizer"])
  /\ Given("SpectrogramVisualizer").buffer = Given("ModelInference").buffer

----------------------------------------------------------------------------
(* ONNXModelInference: the predictions and the feature vectors *)

Resolved(i) == ~IsNull(calls[i].prediction)

\* C16 as stated: every prediction predict resolves with - from the real
\* model, from the mock, or from the mock fallback after an inference error -
\* has one of the two labels and a confidence within [0, 1].
C16_PredictionWellFormed ==
  \A i \in Slots :
    Resolved(i) =>
      /\ calls[i].prediction[1].prediction \in Labels
      /\ Leq(Zero, calls[i].prediction[1].confidence)
      /\ Leq(calls[i].prediction[1].confidence, Int2Num(1))

\* C17: two extractions of the same sample sequence supplied with different
\* sampling rates yield the same vector.
C17_FeaturesIgnoreSamplingRate ==
  \A i \in Slots :
    (/\ ~IsNull(remembered)
     /\ ~IsNull(calls[i].features)
     /\ calls[i].eegData[1].data = remembered[1].eegData.data
     /\ calls[i].eegData[1].sfreq # remembered[1].eegData.sfreq)
      => calls[i].features[1] = remembered[1].features

\* the same samples extracted at two rates, with frequency projections in the vector
C17_Witness ==
  \E i \in Slots :
    /\ ~IsNull(remembered)
    /\ ~IsNull(calls[i].features)
    /\ calls[i].eegData[1].data = remembered[1].eegData.data
    /\ calls[i].eegData[1].sfreq # remembered[1].eegData.sfreq
    /\ calls[i].features[1][FreqEnd].v.t = "cosproj"
    /\ calls[i].features[1][FreqEnd].v.d = NumFreq * RefRate

----------------------------------------------------------------------------
(* The buffers are left as they were *)

\* C19: after any sequence of condition, analyze and extract calls, the loaded
\* buffer has the length and the elements it had when loaded; every call leaves
\* the buffer it was given as it was, and what it returns is an object that did
\* not exist before the call.
C19_BufferUnchangedOutputFresh ==
  /\ heap[subject] = Cell("samples", original)
  /\ lastCall.op # "none" =>
       /\ heap[lastCall.arg] = lastCall.argBefore
       /\ lastCall.out # 0 =>
            /\ lastCall.outWasFree
            /\ lastCall.out # lastCall.arg
            /\ ~IsNull(heap[lastCall.out])

\* the loaded buffer has been conditioned into a different buffer, and a
\* spectrogram or a feature vector of it exists as well
C19_Witness ==
  /\ lastCall.op = "condition"
  /\ lastCall.arg = subject
  /\ Len(original) > 1
  /\ heap[lastCall.out][1].value # original
  /\ \E r \in Refs : ~IsNull(heap[r]) /\ heap[r][1].kind \in {"spectrogram", "features"}

----------------------------------------------------------------------------
(* The smoothing step *)

Smoothing == op = "smooth"

\* h = floor(floor(samplingRate / 10) / 2)
C21_h == (sfreq \div 10) \div 2

\* the 0-based indices j with max(0, i - h) <= j < min(N, i + h)
C21_Window(i) ==
  {j \in 0..(Len(data) - 1) : i - C21_h <= j /\ j < i + C21_h}

RECURSIVE C21_Total(_)
C21_Total(js) ==
  IF js = {} THEN Zero
  ELSE LET j == CHOOSE x \in js : TRUE
       IN  Add(data[j + 1], C21_Total(js \ {j}))

\* C21: bandpassFilter returns a buffer of the length of its input, and output
\* i is the total of exactly the input samples with index in
\* [max(0, i - h), min(N, i + h)) divided by their number: no sample outside
\* the buffer is counted, as a wrapped-around sample or as a zero.
C21_MeanOfClampedWindow ==
  Smoothing =>
    /\ result.kind = "return"
    /\ Len(result.value) = Len(data)
    /\ \A i \in 0..(Len(data) - 1) :
         result.value[i + 1] =
           Div(C21_Total(C21_Window(i)), Int2Num(Cardinality(C21_Window(i))))

\* a window cut at the start of the buffer and one cut at its end, with
\* samples that make the cut show in the mean
C21_Witness ==
  /\ Smoothing /\ Len(data) = 3 /\ C21_h = 2
  /\ data = <<Int2Num(1), Zero, Int2Num(-1)>>
  /\ result.value = <<Q(1, 2), Zero, Zero>>

\* C29 as stated: for every non-empty buffer and every sampling rate > 0, each
\* output index i of bandpassFilter averages a non-empty index range that
\* contains i, so no output is the result of a division by a zero length.
C29_WindowContainsIndex ==
  (Smoothing /\ Len(data) > 0 /\ sfreq > 0) =>
    \A i \in 0..(Len(data) - 1) :
      /\ FilterStart(i, sfreq) <= i
      /\ i < FilterEnd(i, Len(data), sfreq)
      /\ ~IsNaN(result.value[i + 1])

----------------------------------------------------------------------------
(* The slices of the analyzer *)

\* C30: for N >= windowSize and hopSize >= 1, the slice of every window w
\* starts at w * hopSize, holds exactly windowSize samples and ends inside
\* the buffer; consecutive slices start hopSize apart, and fewer than hopSize
\* samples are left after the last slice.
C30_SlicesInsideBuffer ==
  (Analyzed /\ ArgHop >= 1 /\ Len(data) >= ArgWindow) =>
    /\ result.kind = "return"
    /\ \A k \in 1..Len(result.value.power) :
         LET row == result.value.power[k]
         IN  /\ Len(row) >= 1
             /\ \A w \in 1..Len(row) :
                  /\ row[w].lo = (w - 1) * ArgHop
                  /\ row[w].n = ArgWindow
                  /\ row[w].lo + row[w].n <= Len(data)
             /\ \A w \in 1..(Len(row) - 1) : row[w + 1].lo - row[w].lo = ArgHop
             /\ Len(data) - (row[Len(row)].lo + ArgWindow) < ArgHop
             /\ Len(data) - (row[Len(row)].lo + ArgWindow) >= 0

\* three overlapping windows of four samples, hop two, one sample left over
C30_Witness ==
  /\ Analyzed /\ result.kind = "return"
  /\ ArgWindow = 4 /\ ArgHop = 2 /\ Len(data) > NumTimeWindows
  /\ Len(data) % 2 = 1
  /\ Len(result.value.power[1]) >= 3
  /\ result.value.power[1][3].lo = 4
  /\ result.value.power[1][3].n = 4

----------------------------------------------------------------------------
(* The model instance: availability, variant, and the session field *)

PredictDone(i) == calls[i].op = "predict" /\ calls[i].pc = "done"

\* C22: predict never rejects because the model is unavailable or inference
\* fails: a loadModel whose create was rejected completes and leaves the
\* instance unloaded, a rejected session.run is caught, and in both cases
\* predict resolves with the prediction marked "Mock CNN v1.0 (Demo)".
C22_PredictFallsBackToMock ==
  \A i \in Slots :
    /\ calls[i].pc # "rejected"
    /\ (calls[i].createFailed /\ calls[i].pc \in {"loaded", "done"}) =>
         (~isLoaded /\ session = Null)
    /\ (PredictDone(i) /\ (calls[i].createFailed \/ calls[i].runThrew)) =>
         /\ Resolved(i)
         /\ calls[i].prediction[1].modelVersion = "Mock CNN v1.0 (Demo)"
         /\ calls[i].prediction[1] \in
              {generateMockPrediction(calls[i].features[1], r) : r \in RandomDraws}

\* a predict whose model file could not be loaded, resolved with the mock
C22_Witness ==
  \E i \in Slots :
    /\ PredictDone(i) /\ calls[i].createFailed /\ ~calls[i].runThrew
    /\ Resolved(i)
    /\ calls[i].prediction[1].modelVersion = "Mock CNN v1.0 (Demo)"
    /\ ~isLoaded

\* C23 as stated: the variant is selected once, so all modelVersion values
\* returned over a sequence of predict calls are equal.
C23_OneVariantForAllCalls == Cardinality(versions) <= 1

\* C23, amended: the variant is selected by each predict call: its prediction
\* is marked "CNN v1.0" exactly when the call found a session with isLoaded
\* true after its loadModel and session.run resolved, and
\* "Mock CNN v1.0 (Demo)" otherwise.
C23_VariantChosenPerCall ==
  /\ versions \subseteq {"CNN v1.0", "Mock CNN v1.0 (Demo)"}
  /\ \A i \in Slots :
       PredictDone(i) =>
         /\ Resolved(i)
         /\ calls[i].prediction[1].modelVersion \in versions
         /\ calls[i].prediction[1].modelVersion =
              IF calls[i].sawSession /\ ~calls[i].runThrew
              THEN "CNN v1.0" ELSE "Mock CNN v1.0 (Demo)"

\* a predict answered by the real model on an instance that has already
\* returned a mock prediction
C23_Witness ==
  /\ versions = {"CNN v1.0", "Mock CNN v1.0 (Demo)"}
  /\ \E i \in Slots :
       /\ PredictDone(i) /\ calls[i].sawSession /\ ~calls[i].runThrew
       /\ calls[i].prediction[1].modelVersion = "CNN v1.0"

\* C24 as stated: under any interleaving of loadModel, predict and dispose,
\* isLoaded is true if and only if session is non-null.
C24_LoadedIffSession == isLoaded <=> (session # Null)

\* C25 as stated: between two dispose calls at most one created session
\* succeeds, so a live session is never overwritten by a second one without
\* having been released.
C25_NoSessionOverwritten ==
  [][(session # Null /\ session' # Null) => live' <= live]_vars

----------------------------------------------------------------------------
(* The two buffers of useEEGData *)

\* C26 as stated: in every reachable state of useEEGData, loads whose
\* preprocessing fails included, rawData is null exactly when processedData
\* is null, and when both are set processedData is rawData with its samples
\* replaced by preprocess(rawData.data); a failed load never leaves a new
\* rawData paired with the processedData of an earlier load.
C26_ProcessedIsPreprocessedRaw ==
  /\ (rawData = Null) <=> (processedData = Null)
  /\ rawData # Null =>
       /\ preprocessOf[rawData[1]].kind = "return"
       /\ processedData[1] =
            [rawData[1] EXCEPT !.data = preprocessOf[rawData[1]].value]

----------------------------------------------------------------------------
(* The states shown by the callers of predict *)

\* C27 as stated: while a run is in progress (isRunning stays true) the
\* progress value never decreases, and it is reset to 0 only after that run
\* has finished - also when the run was started while the reset timer of the
\* previous run was still pending.
C27_ProgressNeverDecreasesInRun ==
  [][(isRunning /\ isRunning') => progress' >= progress]_vars

\* C28 as stated: under any interleaving of runInference and clearResults,
\* two runInference calls in flight included, prediction and error are never
\* both non-null.
C28_PredictionXorError == ~(inferencePrediction # Null /\ inferenceError # Null)

====
